---- MODULE Spec2Model ----
(***************************************************************************)
(* A model of cloudwatch/cloudWatchMetrics.py: the script that pulls EC2   *)
(* metrics from CloudWatch, transposes them into one record per timestamp  *)
(* and uploads them to an Engine API job, either between two dates         *)
(* (runHistorical) or in an endless polling loop (runRealtime).            *)
(*                                                                         *)
(* Instants are whole seconds since 1970-01-01T00:00:00 UTC; a timedelta   *)
(* is a whole number of seconds.                                           *)
(***************************************************************************)
EXTENDS Integers, Sequences, FiniteSets, TLC

VARIABLES
    pc,             \* position of the process in main()
    arg_job_id,     \* --job-id                       (None when not given)
    arg_start,      \* --start-date as an instant     (None when not given)
    arg_end,        \* --end-date as an instant       (None when not given)
    jobs,           \* the job ids that exist in the Engine
    job_id,         \* main's job_id, the result of createJob
    clock,          \* the wall clock, datetime.utcnow()
    start,          \* the scheduler's local `start`
    end,            \* the scheduler's local `end` (the cursor)
    end_date,       \* runHistorical's end_date
    cycle_now,      \* the clock value the realtime cycle sampled for `end`
    series,         \* index of the next metric of list_metrics to look at
    metric_records, \* queryMetricRecords' local list
    fetched,        \* the records of metric_records in the order they were fetched
    data,           \* the batch handed to upload
    sleep_time,     \* runRealtime's sleep_time
    windows,        \* the windows [start, end) the scheduler has processed
    calls,          \* the calls made to CloudWatch and to the Engine, in order
    interrupted_at, \* where Ctrl-C arrived               (None while it has not)
    t_in,           \* transposeMetrics: the argument
    t_out,          \* transposeMetrics: the returned list
    t_locals,       \* transposeMetrics: its locals after each iteration of the loop
    t_pc,           \* transposeMetrics: "call" before, "return" after
    print_pc,       \* printJobRecords: position of the process in its main()
    skip,           \* printJobRecords: main's local `skip`
    hit_count,      \* printJobRecords: main's local `hit_count` (None until set)
    requests        \* printJobRecords: the getRecords calls and their answers

vars == <<pc, arg_job_id, arg_start, arg_end, jobs, job_id, clock, start, end,
          end_date, cycle_now, series, metric_records, fetched, data, sleep_time,
          windows, calls, interrupted_at, t_in, t_out, t_locals, t_pc,
          print_pc, skip, hit_count, requests>>

schedVars == <<pc, arg_job_id, arg_start, arg_end, jobs, job_id, clock, start,
               end, end_date, cycle_now, series, metric_records, fetched, data,
               sleep_time, windows, calls, interrupted_at>>

transposeVars == <<t_in, t_out, t_locals, t_pc>>

printVars == <<print_pc, skip, hit_count, requests>>

-----------------------------------------------------------------------------
(* Program constants *)

UPDATE_INTERVAL == 300

REPORTING_INTERVAL == 60

DELAY == 600

MAX_DATAPOINTS_PER_QUERY == 1440

SECONDS_PER_DAY == 86400

HTTP_ACCEPTED == 202

HTTP_CREATED == 201

HTTP_NOT_FOUND == 404

-----------------------------------------------------------------------------
(* datetime *)

\* A local variable: `value` is computed once and Body is applied to it.
Bind(value, Body(_)) == CHOOSE result \in {Body(v) : v \in {value}} : TRUE

Digit == <<"0", "1", "2", "3", "4", "5", "6", "7", "8", "9">>

Pad2(n) == Digit[((n \div 10) % 10) + 1] \o Digit[(n % 10) + 1]

Pad4(n) == Pad2(n \div 100) \o Pad2(n % 100)

\* The proleptic Gregorian date <<year, month, day>> of a day number counted
\* from 1970-01-01.
CivilFromDays(days) ==
    Bind(days + 719468, LAMBDA z :
    Bind(z \div 146097, LAMBDA era :
    Bind(z - era * 146097, LAMBDA doe :
    Bind((doe - doe \div 1460 + doe \div 36524 - doe \div 146096) \div 365, LAMBDA yoe :
    Bind(doe - (365 * yoe + yoe \div 4 - yoe \div 100), LAMBDA doy :
    Bind((5 * doy + 2) \div 153, LAMBDA mp :
    Bind(doy - (153 * mp + 2) \div 5 + 1, LAMBDA d :
    Bind(IF mp < 10 THEN mp + 3 ELSE mp - 9, LAMBDA m :
    Bind(yoe + era * 400 + (IF m <= 2 THEN 1 ELSE 0), LAMBDA y :
        <<y, m, d>>)))))))))

\* datetime.isoformat() of a datetime tagged with the UTC tzinfo and holding
\* no microseconds.
isoformat(t) ==
    Bind(CivilFromDays(t \div SECONDS_PER_DAY), LAMBDA ymd :
    Bind(t % SECONDS_PER_DAY, LAMBDA s :
        Pad4(ymd[1]) \o "-" \o Pad2(ymd[2]) \o "-" \o Pad2(ymd[3]) \o "T"
        \o Pad2(s \div 3600) \o ":" \o Pad2((s \div 60) % 60) \o ":"
        \o Pad2(s % 60) \o "+00:00"))

\* date.replace(tzinfo=UTC()): the instant's fields are kept and the zone is
\* set; on the whole-second UTC instants of the model the value is the same.
replaceTimezoneWithUtc(date) == date

\* timedelta.seconds: the seconds field of the normalised (days, seconds,
\* microseconds) representation, 0 <= seconds < 86400.
TimedeltaSeconds(d) == d % SECONDS_PER_DAY

\* 2014-10-01T00:00:00 UTC, the date of the module docstring's usage example.
T1 == 16344 * SECONDS_PER_DAY

\* Mutant of calculateIntervalBetweenQueries: no time between queries.
calculateIntervalBetweenQueries_Zero(reporting_interval) == 0

calculateIntervalBetweenQueries(reporting_interval) ==
    MAX_DATAPOINTS_PER_QUERY * reporting_interval

-----------------------------------------------------------------------------
(* MetricRecord, queryMetricRecords' sort and transposeMetrics *)

MetricRecord(timestamp, instance, metric_name, metric_value) ==
    [timestamp |-> timestamp, instance |-> instance,
     metric_name |-> metric_name, metric_value |-> metric_value]

\* Mutant of InsertByTimestamp: a record goes before those of its timestamp.
RECURSIVE InsertByTimestamp_Unstable(_, _)
InsertByTimestamp_Unstable(sorted, r) ==
    IF sorted = <<>> THEN <<r>>
    ELSE IF sorted[Len(sorted)].timestamp < r.timestamp
         THEN Append(sorted, r)
         ELSE Append(InsertByTimestamp_Unstable(SubSeq(sorted, 1, Len(sorted) - 1), r),
                     sorted[Len(sorted)])

\* list.sort(key=lambda r : r.timestamp) is stable: r goes after every
\* record of the sorted prefix whose timestamp is <= its own.
RECURSIVE InsertByTimestamp(_, _)
InsertByTimestamp(sorted, r) ==
    IF sorted = <<>> THEN <<r>>
    ELSE IF sorted[Len(sorted)].timestamp <= r.timestamp
         THEN Append(sorted, r)
         ELSE Append(InsertByTimestamp(SubSeq(sorted, 1, Len(sorted) - 1), r),
                     sorted[Len(sorted)])

RECURSIVE SortByTimestamp(_)
SortByTimestamp(records) ==
    IF records = <<>> THEN <<>>
    ELSE Bind(SortByTimestamp(SubSeq(records, 1, Len(records) - 1)),
              LAMBDA sorted : InsertByTimestamp(sorted, records[Len(records)]))

\* current_record = None
NoRecord == [none |-> TRUE]

\* dict(), then current_record['timestamp'] and current_record['instance']
NewRecord(metric) ==
    [timestamp |-> isoformat(metric.timestamp), instance |-> metric.instance,
     fields |-> <<>>]

\* Mutant of SetField: a field that is already set keeps its value.
SetField_KeepFirst(record, name, value) ==
    [record EXCEPT !.fields =
        [n \in DOMAIN record.fields \cup {name} |->
            IF n \in DOMAIN record.fields THEN record.fields[n] ELSE value]]

\* current_record[metric.metric_name] = metric.metric_value
SetField(record, name, value) ==
    [record EXCEPT !.fields =
        [n \in DOMAIN record.fields \cup {name} |->
            IF n = name THEN value ELSE record.fields[n]]]

EPOCH == 0

\* The locals of transposeMetrics before the loop.
TransposeStart ==
    [tranposed_metrics |-> <<>>, current_record |-> NoRecord,
     current_time |-> EPOCH, raised |-> FALSE]

\* Mutant of TransposeStep: a record is opened whenever the timestamp differs
\* from the current one, not only when it is later.
TransposeStep_OpenOnChange(st, metric) ==
    IF st.current_time # metric.timestamp
    THEN [tranposed_metrics |->
              IF st.current_record # [none |-> TRUE]
              THEN Append(st.tranposed_metrics, st.current_record)
              ELSE st.tranposed_metrics,
          current_record |->
              [timestamp |-> isoformat(metric.timestamp),
               instance |-> metric.instance,
               fields |-> [n \in {metric.metric_name} |-> metric.metric_value]],
          current_time |-> metric.timestamp,
          raised |-> FALSE]
    ELSE [st EXCEPT !.current_record =
              [@ EXCEPT !.fields =
                  [n \in DOMAIN @ \cup {metric.metric_name} |->
                      IF n = metric.metric_name THEN metric.metric_value ELSE @[n]]]]

\* One iteration of transposeMetrics' loop.  Assigning a field of a
\* current_record that is still None raises TypeError.
TransposeStep(st, metric) ==
    IF st.raised THEN st
    ELSE IF st.current_time < metric.timestamp
    THEN [tranposed_metrics |->
              IF st.current_record # NoRecord
              THEN Append(st.tranposed_metrics, st.current_record)
              ELSE st.tranposed_metrics,
          current_record |->
              SetField(NewRecord(metric), metric.metric_name, metric.metric_value),
          current_time |-> metric.timestamp,
          raised |-> FALSE]
    ELSE IF st.current_record = NoRecord
    THEN [st EXCEPT !.raised = TRUE]
    ELSE [st EXCEPT !.current_record =
              SetField(st.current_record, metric.metric_name, metric.metric_value)]

RECURSIVE TransposeLoop(_)
TransposeLoop(metrics) ==
    IF metrics = <<>> THEN TransposeStart
    ELSE Bind(TransposeLoop(SubSeq(metrics, 1, Len(metrics) - 1)),
              LAMBDA st : TransposeStep(st, metrics[Len(metrics)]))

\* return tranposed_metrics
transposeMetrics(metrics) == TransposeLoop(metrics).tranposed_metrics
-----------------------------------------------------------------------------
(* Optional values: None is the empty list, a value x is <<x>> *)

None == <<>>

Some(x) == <<x>>

-----------------------------------------------------------------------------
(* The environment: CloudWatch and the Engine API *)

\* What cloudwatch_conn.list_metrics(namespace='AWS/EC2') returns: two series
\* of one instance and one series aggregated by instance type.
Metrics ==
    <<[name |-> "CPUUtilization", dimensions |-> [InstanceId |-> <<"i-1">>]],
      [name |-> "CPUUtilization", dimensions |-> [InstanceType |-> <<"m1.small">>]],
      [name |-> "NetworkIn", dimensions |-> [InstanceId |-> <<"i-1">>]]>>

\* What m.query(start, end, 'Average', period) may return: no datapoint, one,
\* or two in no particular order.
Datapoints(s) ==
    {<<>>,
     <<[Timestamp |-> s, Average |-> 10]>>,
     <<[Timestamp |-> s + REPORTING_INTERVAL, Average |-> 20],
       [Timestamp |-> s, Average |-> 10]>>}

\* Status of a CloudWatch call in `calls`: answered, or BotoServerError.
BOTO_OK == 200

BOTO_SERVER_ERROR == 503

\* Statuses the Engine answers an upload with.
UploadStatuses == {HTTP_ACCEPTED, 500}

\* Statuses the Engine answers a createJob with.
CreateStatuses == {HTTP_CREATED, 500}

\* The id the Engine assigns to a job created without one.
AutoId == "20141001000000-00001"

\* One call to CloudWatch or to the Engine.  `win` is the number of the
\* window the call was made for (0 outside the scheduler), `series` the index
\* of the queried metric (0 for the other calls).
Call(op, win, ser, status) ==
    [op |-> op, win |-> win, series |-> ser, status |-> status]

-----------------------------------------------------------------------------
(* createJob *)

\* client.getJob(job_id): 200 or 404 as the job exists or not, or a server
\* error whichever is the case.
GetStatuses(id) ==
    (IF id \in jobs THEN {200} ELSE {HTTP_NOT_FOUND}) \cup {500}

\* Mutant of JobIsMissing: a create is issued whenever getJob does not
\* answer 200.
JobIsMissing_NotOk(http_status) == http_status # 200

\* The branch of createJob taken after getJob: TRUE when a create is issued.
JobIsMissing(http_status) == http_status = HTTP_NOT_FOUND

\* Mutant of AfterCreateJob: main does not test createJob's result.
AfterCreateJob_NoTest(result) == "main"

\* if job_id == None: return
AfterCreateJob(result) == IF result = None THEN "exit" ELSE "main"

\* The id the running call of createJob was given: main passes args.job_id,
\* and job_id is None until that call has returned.
CreateJobId == IF job_id = None THEN arg_job_id ELSE job_id

\* client.createJob(...) answers st; createJob returns None when the status
\* is not 201, else the id given or, when none was given, the id the Engine
\* made up.
createJobReturns(id, st) ==
    /\ calls' = Append(calls, Call("createJob", 0, 0, st))
    /\ IF st # HTTP_CREATED
       THEN /\ job_id' = None
            /\ jobs' = jobs
       ELSE /\ job_id' = IF id = None THEN Some(AutoId) ELSE id
            /\ jobs' = jobs \cup {IF id = None THEN AutoId ELSE id[1]}
    /\ pc' = AfterCreateJob(job_id')

\* createJob(id, client) up to the answer of its first call on the Engine:
\* without an id that is client.createJob, whose answer ends the function;
\* with an id it is client.getJob, after which either a create is to be
\* issued or the id is returned.
createJob(id) ==
    \/ /\ id = None
       /\ \E st \in CreateStatuses : createJobReturns(id, st)
    \/ /\ id # None
       /\ \E gst \in GetStatuses(id[1]) :
             /\ calls' = Append(calls, Call("getJob", 0, 0, gst))
             /\ IF JobIsMissing(gst)
                THEN /\ pc' = "createJob_create"
                     /\ UNCHANGED <<job_id, jobs>>
                ELSE /\ job_id' = id
                     /\ jobs' = jobs
                     /\ pc' = AfterCreateJob(id)

\* job_id = createJob(args.job_id, engine_client), up to the answer of its
\* first call, and main's test of the result when the function returns.
CreateJob ==
    /\ pc = "createJob"
    /\ createJob(arg_job_id)
    /\ UNCHANGED <<arg_job_id, arg_start, arg_end, clock, start, end, end_date,
                   cycle_now, series, metric_records, fetched, data, sleep_time,
                   windows, interrupted_at>>
    /\ UNCHANGED transposeVars
    /\ UNCHANGED printVars

\* createJob after getJob has answered 404: client.createJob with the id
\* given, and main's test of the result.
CreateMissingJob ==
    /\ pc = "createJob_create"
    /\ \E st \in CreateStatuses : createJobReturns(CreateJobId, st)
    /\ UNCHANGED <<arg_job_id, arg_start, arg_end, clock, start, end, end_date,
                   cycle_now, series, metric_records, fetched, data, sleep_time,
                   windows, interrupted_at>>
    /\ UNCHANGED transposeVars
    /\ UNCHANGED printVars

-----------------------------------------------------------------------------
(* One fetch cycle: the try block shared by runHistorical and runRealtime *)

\* Mutant of QueryRaises: the error is handled inside the loop over the
\* metrics, the failing series is skipped and the cycle goes on.
QueryRaises_SkipSeries(pcAfter) ==
    /\ series' = series + 1
    /\ UNCHANGED <<pc, metric_records, fetched, clock>>

\* m.query raises BotoServerError: it leaves queryMetricRecords and the rest
\* of the try block for the except clause, which prints and falls through.
QueryRaises(pcAfter) ==
    /\ pc' = pcAfter
    /\ UNCHANGED <<series, metric_records, fetched, clock>>

\* Mutant of AfterUpload: a refused batch is uploaded again.
AfterUpload_Retry(http_status, pcQuery, pcAfter) ==
    IF http_status # HTTP_ACCEPTED THEN pcQuery ELSE pcAfter

\* The pc after upload has answered http_status: a status other than 202 is
\* printed, nothing else.
AfterUpload(http_status, pcQuery, pcAfter) == pcAfter

\* The records queryMetricRecords appends for the datapoints of metric m.
RecordsOf(m, datapoints) ==
    [i \in 1..Len(datapoints) |->
        MetricRecord(replaceTimezoneWithUtc(datapoints[i].Timestamp),
                     m.dimensions["InstanceId"][1], m.name,
                     datapoints[i].Average)]

\* Mutant of JsonLine: the line is not terminated.
JsonLine_NoNewline(met) == [json |-> met, terminator |-> ""]

\* json.dumps(met) + '\n': one JSON document on a line of its own.
JsonLine(met) == [json |-> met, terminator |-> "\n"]

\* The batch built from the transposed metrics.
Serialize(tranposed_metrics) ==
    [i \in 1..Len(tranposed_metrics) |-> JsonLine(tranposed_metrics[i])]

cycleUnchanged ==
    /\ UNCHANGED <<arg_job_id, arg_start, arg_end, jobs, job_id, start, end,
                   end_date, cycle_now, sleep_time, windows, interrupted_at>>
    /\ UNCHANGED transposeVars
    /\ UNCHANGED printVars

\* metrics = cloudwatch_conn.list_metrics(namespace='AWS/EC2')
ListMetrics(pcList, pcQuery, pcAfter) ==
    /\ pc = pcList
    /\ \/ /\ calls' = Append(calls, Call("list_metrics", Len(windows), 0, BOTO_OK))
          /\ series' = 1
          /\ metric_records' = <<>>
          /\ fetched' = <<>>
          /\ pc' = pcQuery
       \/ /\ calls' = Append(calls, Call("list_metrics", Len(windows), 0,
                                         BOTO_SERVER_ERROR))
          /\ UNCHANGED <<series, metric_records, fetched>>
          /\ pc' = pcAfter
    /\ UNCHANGED <<clock, data>>
    /\ cycleUnchanged

\* One iteration of queryMetricRecords' loop over the metrics; `durations` is
\* what the query may take.
QuerySeries(pcQuery, pcAfter, durations) ==
    /\ pc = pcQuery
    /\ series <= Len(Metrics)
    /\ LET m == Metrics[series] IN
       \/ /\ "InstanceId" \notin DOMAIN m.dimensions
          /\ series' = series + 1
          /\ UNCHANGED <<metric_records, fetched, calls, clock, pc>>
       \/ /\ "InstanceId" \in DOMAIN m.dimensions
          /\ \E datapoints \in Datapoints(start), d \in durations :
                /\ metric_records' = metric_records \o RecordsOf(m, datapoints)
                /\ fetched' = fetched \o RecordsOf(m, datapoints)
                /\ calls' = Append(calls, Call("query", Len(windows), series, BOTO_OK))
                /\ clock' = clock + d
          /\ series' = series + 1
          /\ UNCHANGED pc
       \/ /\ "InstanceId" \in DOMAIN m.dimensions
          /\ calls' = Append(calls, Call("query", Len(windows), series,
                                         BOTO_SERVER_ERROR))
          /\ QueryRaises(pcAfter)
    /\ UNCHANGED data
    /\ cycleUnchanged

\* The end of queryMetricRecords (the sort), transposeMetrics, the batch, and
\* the call of engine_client.upload(job_id, data).
\* Every datapoint is later than the epoch, so transposeMetrics does not raise.
TransposeAndUpload(pcQuery, pcUpload) ==
    /\ pc = pcQuery
    /\ series > Len(Metrics)
    /\ \E sorted \in {SortByTimestamp(metric_records)} :
       /\ ~TransposeLoop(sorted).raised
       /\ metric_records' = sorted
       /\ UNCHANGED fetched
       /\ data' = Serialize(transposeMetrics(sorted))
    /\ calls' = Append(calls, Call("upload", Len(windows), 0, 0))
    /\ pc' = pcUpload
    /\ UNCHANGED <<clock, series>>
    /\ cycleUnchanged

\* upload answers; `durations` is what it may take.
UploadReturns(pcQuery, pcUpload, pcAfter, durations) ==
    /\ pc = pcUpload
    /\ \E http_status \in UploadStatuses, d \in durations :
          /\ calls' = Append(calls, Call("upload_done", Len(windows), 0, http_status))
          /\ clock' = clock + d
          /\ pc' = AfterUpload(http_status, pcQuery, pcAfter)
    /\ UNCHANGED <<series, metric_records, fetched, data>>
    /\ cycleUnchanged

-----------------------------------------------------------------------------
(* runHistorical *)

\* Mutant of HistWindowEnd: the window is not cut at end_date.
HistWindowEnd_NoClamp(s, delta, e_date) == s + delta

\* end = start + delta; if (end > end_date): end = end_date
HistWindowEnd(s, delta, e_date) ==
    IF s + delta > e_date THEN e_date ELSE s + delta

\* main's historical branch and the first two lines of runHistorical.
MainHistorical ==
    /\ pc = "main"
    /\ arg_start # None
    /\ end_date' = IF arg_end # None
                   THEN replaceTimezoneWithUtc(arg_end[1])
                   ELSE replaceTimezoneWithUtc(clock)
    /\ end' = replaceTimezoneWithUtc(arg_start[1])
    /\ pc' = "h_head"
    /\ UNCHANGED <<arg_job_id, arg_start, arg_end, jobs, job_id, clock, start,
                   cycle_now, series, metric_records, fetched, data, sleep_time,
                   windows, calls, interrupted_at>>
    /\ UNCHANGED transposeVars
    /\ UNCHANGED printVars

\* The head of runHistorical's loop: the next window, or the break.
HistLoopHead ==
    /\ pc = "h_head"
    /\ LET s == end
           e == HistWindowEnd(s, calculateIntervalBetweenQueries(REPORTING_INTERVAL),
                              end_date)
       IN  /\ start' = s
           /\ end' = e
           /\ IF s = e
              THEN /\ pc' = "close"
                   /\ UNCHANGED windows
              ELSE /\ pc' = "h_list"
                   /\ windows' = Append(windows, [start |-> s, end |-> e])
    /\ UNCHANGED <<arg_job_id, arg_start, arg_end, jobs, job_id, clock, end_date,
                   cycle_now, series, metric_records, fetched, data, sleep_time, calls,
                   interrupted_at>>
    /\ UNCHANGED transposeVars
    /\ UNCHANGED printVars

\* runHistorical never reads the clock: its calls are given no duration.
HistListMetrics == ListMetrics("h_list", "h_query", "h_head")

HistQuerySeries == QuerySeries("h_query", "h_head", {0})

HistTransposeAndUpload == TransposeAndUpload("h_query", "h_upload")

HistUploadReturns == UploadReturns("h_query", "h_upload", "h_head", {0})

-----------------------------------------------------------------------------
(* runRealtime *)

MaxCycles == 2

\* What a query and an upload may take, in seconds.
QueryDurations == {0, 100}

UploadDurations == {0, 200, SECONDS_PER_DAY}

\* Mutant of RTInitialEnd: the first window is not given its own cycle.
RTInitialEnd_NoInterval(now) == replaceTimezoneWithUtc(now - DELAY)

\* Mutant of RTWindowEnd: the safety delay is not subtracted.
RTWindowEnd_NoDelay(now) == replaceTimezoneWithUtc(now)

\* end = datetime.utcnow() - delay - timedelta(seconds=UPDATE_INTERVAL)
RTInitialEnd(now) == replaceTimezoneWithUtc(now - DELAY - UPDATE_INTERVAL)

\* end = datetime.utcnow() - delay
RTWindowEnd(now) == replaceTimezoneWithUtc(now - DELAY)

Max(a, b) == IF a >= b THEN a ELSE b

\* duration = now - delay - end; sleep_time = max(UPDATE_INTERVAL - duration.seconds, 0)
RTSleepTime(now, e) ==
    Max(UPDATE_INTERVAL - TimedeltaSeconds(now - DELAY - e), 0)

\* The pc values inside runRealtime's try statement.
RTPcs == {"r_head", "r_list", "r_query", "r_upload", "r_cadence", "r_sleep"}

\* main's realtime branch and runRealtime up to its loop.
MainRealtime ==
    /\ pc = "main"
    /\ arg_start = None
    /\ end' = RTInitialEnd(clock)
    /\ pc' = "r_head"
    /\ UNCHANGED <<arg_job_id, arg_start, arg_end, jobs, job_id, clock, start,
                   end_date, cycle_now, series, metric_records, fetched, data,
                   sleep_time, windows, calls, interrupted_at>>
    /\ UNCHANGED transposeVars
    /\ UNCHANGED printVars

\* The head of runRealtime's loop: the next window.
RTLoopHead ==
    /\ pc = "r_head"
    /\ Len(windows) < MaxCycles
    /\ start' = end
    /\ end' = RTWindowEnd(clock)
    /\ cycle_now' = clock
    /\ windows' = Append(windows, [start |-> end, end |-> RTWindowEnd(clock)])
    /\ pc' = "r_list"
    /\ UNCHANGED <<arg_job_id, arg_start, arg_end, jobs, job_id, clock, end_date,
                   series, metric_records, fetched, data, sleep_time, calls,
                   interrupted_at>>
    /\ UNCHANGED transposeVars
    /\ UNCHANGED printVars

RTListMetrics == ListMetrics("r_list", "r_query", "r_cadence")

RTQuerySeries == QuerySeries("r_query", "r_cadence", QueryDurations)

RTTransposeAndUpload == TransposeAndUpload("r_query", "r_upload")

RTUploadReturns == UploadReturns("r_query", "r_upload", "r_cadence", UploadDurations)

\* now = datetime.utcnow() ... if sleep_time > 0: time.sleep(sleep_time)
RTCadence ==
    /\ pc = "r_cadence"
    /\ sleep_time' = RTSleepTime(replaceTimezoneWithUtc(clock), end)
    /\ pc' = IF RTSleepTime(replaceTimezoneWithUtc(clock), end) > 0
             THEN "r_sleep" ELSE "r_head"
    /\ UNCHANGED <<arg_job_id, arg_start, arg_end, jobs, job_id, clock, start,
                   end, end_date, cycle_now, series, metric_records, fetched, data,
                   windows, calls, interrupted_at>>
    /\ UNCHANGED transposeVars
    /\ UNCHANGED printVars

\* time.sleep(sleep_time) returns.
RTSleepReturns ==
    /\ pc = "r_sleep"
    /\ clock' = clock + sleep_time
    /\ pc' = "r_head"
    /\ UNCHANGED <<arg_job_id, arg_start, arg_end, jobs, job_id, start, end,
                   end_date, cycle_now, series, metric_records, fetched, data,
                   sleep_time, windows, calls, interrupted_at>>
    /\ UNCHANGED transposeVars
    /\ UNCHANGED printVars

\* Mutant of AfterKeyboardInterrupt: an interrupt during an upload is held
\* back until the upload has answered.
AfterKeyboardInterrupt_Deferred(at) == IF at = "r_upload" THEN at ELSE "close"

\* Mutant of AfterKeyboardInterrupt: an interrupt of the sleep only ends the
\* sleep (the except clause sits inside the loop).
AfterKeyboardInterrupt_Resume(at) == IF at = "r_sleep" THEN "r_head" ELSE "close"

\* Mutant of AfterKeyboardInterrupt: the process ends where it is interrupted.
AfterKeyboardInterrupt_Exit(at) == "done"

\* The pc after KeyboardInterrupt is raised at pc `at` inside the try
\* statement: the except clause prints and returns to main.
AfterKeyboardInterrupt(at) == "close"

\* Ctrl-C while runRealtime runs: KeyboardInterrupt is raised wherever the
\* process is, also inside a blocking call.  (Outside runRealtime nothing
\* catches it and the process dies; those runs are not modelled.)
KeyboardInterrupt ==
    /\ pc \in RTPcs
    /\ interrupted_at = None
    /\ interrupted_at' = Some([at |-> pc, ncalls |-> Len(calls),
                               nwindows |-> Len(windows)])
    /\ pc' = AfterKeyboardInterrupt(pc)
    /\ UNCHANGED <<arg_job_id, arg_start, arg_end, jobs, job_id, clock, start,
                   end, end_date, cycle_now, series, metric_records, fetched, data,
                   sleep_time, windows, calls>>
    /\ UNCHANGED transposeVars
    /\ UNCHANGED printVars

-----------------------------------------------------------------------------
(* main *)

\* engine_client.close(job_id)
CloseJob ==
    /\ pc = "close"
    /\ calls' = Append(calls, Call("close", 0, 0, 0))
    /\ pc' = "done"
    /\ UNCHANGED <<arg_job_id, arg_start, arg_end, jobs, job_id, clock, start,
                   end, end_date, cycle_now, series, metric_records, fetched, data,
                   sleep_time, windows, interrupted_at>>
    /\ UNCHANGED transposeVars
    /\ UNCHANGED printVars

MaxHalfDays == 5

\* The wall clock when a realtime run starts.
Now0 == T1 + 12 * 3600

\* The wall clock when a historical run without --end-date starts: up to
\* MaxHalfDays half days after T1, on the boundary or a second off it.
HistClocks ==
    {T1 + k * (SECONDS_PER_DAY \div 2) + o : k \in 0..MaxHalfDays, o \in {0, 1}}

\* The --end-date values tried with --start-date T1 (one of them before it).
EndDates == {T1 - SECONDS_PER_DAY, T1, T1 + SECONDS_PER_DAY, T1 + 2 * SECONDS_PER_DAY}

\* The process after the configuration is read and CloudWatch is connected.
Init ==
    /\ pc = "createJob"
    /\ arg_job_id \in {None, Some("cloudwatch")}
    /\ jobs \in SUBSET {"cloudwatch"}
    /\ \/ /\ arg_start = None
          /\ arg_end = None
          /\ clock = Now0
       \/ /\ arg_start = Some(T1)
          /\ arg_end = None
          /\ clock \in HistClocks
       \/ /\ arg_start = Some(T1)
          /\ arg_end \in {Some(d) : d \in EndDates}
          /\ clock = Now0
    /\ job_id = None
    /\ start = 0
    /\ end = 0
    /\ end_date = 0
    /\ cycle_now = 0
    /\ series = 0
    /\ metric_records = <<>>
    /\ fetched = <<>>
    /\ data = <<>>
    /\ sleep_time = 0
    /\ windows = <<>>
    /\ calls = <<>>
    /\ interrupted_at = None
    /\ t_in = <<>>
    /\ t_out = <<>>
    /\ t_locals = <<>>
    /\ t_pc = "idle"
    /\ print_pc = "idle"
    /\ skip = 0
    /\ hit_count = None
    /\ requests = <<>>

Next ==
    \/ CreateJob
    \/ CreateMissingJob
    \/ MainHistorical
    \/ HistLoopHead
    \/ HistListMetrics
    \/ HistQuerySeries
    \/ HistTransposeAndUpload
    \/ HistUploadReturns
    \/ MainRealtime
    \/ RTLoopHead
    \/ RTListMetrics
    \/ RTQuerySeries
    \/ RTTransposeAndUpload
    \/ RTUploadReturns
    \/ RTCadence
    \/ RTSleepReturns
    \/ KeyboardInterrupt
    \/ CloseJob

Spec == Init /\ [][Next]_vars

-----------------------------------------------------------------------------
(* transposeMetrics applied to every short list of metric records *)

MaxLen == 3

TTimestamps == {T1, T1 + REPORTING_INTERVAL}

TInstances == {"i-1", "i-2"}

TMetricNames == {"CPUUtilization", "NetworkIn"}

TValues == {5, 10}

TRecords ==
    {MetricRecord(t, i, n, v) :
        t \in TTimestamps, i \in TInstances, n \in TMetricNames, v \in TValues}

TInputs == UNION {[1..n -> TRecords] : n \in 0..MaxLen}

\* The scheduler's variables while only transposeMetrics is exercised.
SchedIdle ==
    /\ pc = "idle"
    /\ arg_job_id = None
    /\ arg_start = None
    /\ arg_end = None
    /\ jobs = {}
    /\ job_id = None
    /\ clock = 0
    /\ start = 0
    /\ end = 0
    /\ end_date = 0
    /\ cycle_now = 0
    /\ series = 0
    /\ metric_records = <<>>
    /\ fetched = <<>>
    /\ data = <<>>
    /\ sleep_time = 0
    /\ windows = <<>>
    /\ calls = <<>>
    /\ interrupted_at = None

InitTranspose ==
    /\ SchedIdle
    /\ t_in \in TInputs
    /\ t_out = <<>>
    /\ t_locals = <<>>
    /\ t_pc = "call"
    /\ print_pc = "idle"
    /\ skip = 0
    /\ hit_count = None
    /\ requests = <<>>

\* The call transposeMetrics(t_in), when it returns.
CallTranspose ==
    /\ t_pc = "call"
    /\ ~TransposeLoop(t_in).raised
    /\ t_out' = transposeMetrics(t_in)
    /\ t_locals' = [i \in 1..Len(t_in) |-> TransposeLoop(SubSeq(t_in, 1, i))]
    /\ t_pc' = "return"
    /\ UNCHANGED <<t_in>>
    /\ UNCHANGED schedVars
    /\ UNCHANGED printVars

NextTranspose == CallTranspose

SpecTranspose == InitTranspose /\ [][NextTranspose]_vars

-----------------------------------------------------------------------------
(* Properties of transposeMetrics *)

IsSortedByTimestamp(records) ==
    \A i \in 1..Len(records) : \A j \in i..Len(records) :
        records[i].timestamp <= records[j].timestamp

TimestampsOf(records) == {records[i].timestamp : i \in 1..Len(records)}

\* The metric names observed at timestamp t.
NamesAt(records, t) ==
    {records[i].metric_name : i \in {j \in 1..Len(records) : records[j].timestamp = t}}

\* C2: for a timestamp-sorted input with k distinct timestamps transposeMetrics
\* returns exactly k records, in ascending timestamp order, the record of a
\* timestamp holding exactly the metrics observed at that timestamp (the
\* trailing open record included).
C2_OneRecordPerTimestamp ==
    (t_pc = "return" /\ IsSortedByTimestamp(t_in)) =>
        /\ Len(t_out) = Cardinality(TimestampsOf(t_in))
        /\ \A t \in TimestampsOf(t_in) :
              \E i \in 1..Len(t_out) :
                  /\ t_out[i].timestamp = isoformat(t)
                  /\ DOMAIN t_out[i].fields = NamesAt(t_in, t)
        /\ \A i \in 1..Len(t_out) : \A j \in i..Len(t_out) :
              i < j => \E t, u \in TimestampsOf(t_in) :
                  /\ t < u
                  /\ t_out[i].timestamp = isoformat(t)
                  /\ t_out[j].timestamp = isoformat(u)

-----------------------------------------------------------------------------
(* Properties of the scheduler *)

IsHistorical == arg_start # None

IsRealtime == arg_start = None

\* main has entered runHistorical or runRealtime.
Scheduling == pc \notin {"idle", "createJob", "createJob_create", "main", "exit"}

CallIndexes == 1..Len(calls)

WindowLength(w) == w.end - w.start

\* C1: in historical mode with start_date <= end_date the windows queried
\* partition [start_date, end_date): the first starts at start_date, each next
\* one starts where the previous one ended, none is longer than 1440 * 60 s
\* or reaches outside the range, and when the loop is left the last one ends
\* at end_date; a range of 2.5
\* days is cut into windows of 86400, 86400 and 43200 s.
C1_WindowsPartitionRange ==
    (IsHistorical /\ Scheduling /\ arg_start[1] <= end_date) =>
        /\ windows # <<>> => windows[1].start = arg_start[1]
        /\ \A k \in 2..Len(windows) : windows[k].start = windows[k - 1].end
        /\ \A k \in 1..Len(windows) :
              /\ windows[k].start <= windows[k].end
              /\ WindowLength(windows[k]) <= MAX_DATAPOINTS_PER_QUERY * REPORTING_INTERVAL
              /\ arg_start[1] <= windows[k].start
              /\ windows[k].end <= end_date
        /\ pc \in {"close", "done"} =>
              IF windows = <<>> THEN arg_start[1] = end_date
              ELSE windows[Len(windows)].end = end_date
        /\ (pc \in {"close", "done"} /\ end_date - arg_start[1] = 216000) =>
              /\ Len(windows) = 3
              /\ WindowLength(windows[1]) = 86400
              /\ WindowLength(windows[2]) = 86400
              /\ WindowLength(windows[3]) = 43200

\* A historical run over 2.5 days has finished its third window.
C1_Witness ==
    /\ IsHistorical
    /\ pc = "done"
    /\ end_date - arg_start[1] = 216000
    /\ Len(windows) = 3

\* The calls made for window w after call number i.
LaterCallsFor(w, i) == {k \in CallIndexes : k > i /\ calls[k].win = w}

\* Call number i is a series query that raised BotoServerError after another
\* series of the same window had been queried successfully.
IsErrorAfterPartialFetch(i) ==
    /\ calls[i].op = "query"
    /\ calls[i].status = BOTO_SERVER_ERROR
    /\ \E j \in 1..(i - 1) :
          /\ calls[j].op = "query"
          /\ calls[j].win = calls[i].win
          /\ calls[j].status = BOTO_OK

\* The pc values at which the scheduler is past the try block of a cycle.
PastCyclePcs == {"h_head", "r_cadence", "r_sleep", "r_head", "close", "done"}

\* The cycle of window w is over.
CycleOver(w) == Len(windows) > w \/ pc \in {"close", "done"}

\* C3: when a series query raises a provider error after other
\* series were queried, the observations already retrieved are still
\* transposed and uploaded for that window.
C3_PartialDataStillUploaded ==
    \A i \in CallIndexes :
        (IsErrorAfterPartialFetch(i) /\ CycleOver(calls[i].win)) =>
            \E k \in LaterCallsFor(calls[i].win, i) : calls[k].op = "upload"

\* What the code does in the case of C3: when a series query raises a
\* provider error after other series
\* were queried, the error is caught and the scheduler goes on (in both modes
\* the next window starts at the end of this one), but the rest of the cycle
\* is skipped: no further series is queried and nothing is uploaded for that
\* window.
C3_ProviderErrorSkipsRestOfCycle ==
    \A i \in CallIndexes :
        IsErrorAfterPartialFetch(i) =>
            /\ LaterCallsFor(calls[i].win, i) = {}
            /\ Len(windows) = calls[i].win => pc \in PastCyclePcs
            /\ Len(windows) > calls[i].win =>
                  windows[calls[i].win + 1].start = windows[calls[i].win].end

\* The second series query of the first window raised after the first one
\* had answered, and the scheduler is in its second window.
C3_Witness ==
    /\ Len(windows) >= 2
    /\ \E i \in CallIndexes : IsErrorAfterPartialFetch(i) /\ calls[i].win = 1

\* C4: in realtime mode the sleep computed after a cycle that took e seconds
\* is max(UPDATE_INTERVAL - e, 0), for every e >= 0, a day or more included.
C4_SleepIsIntervalMinusElapsed ==
    (pc = "r_sleep" \/ (pc = "r_head" /\ Len(windows) >= 1 /\ sleep_time = 0)) =>
        sleep_time = Max(UPDATE_INTERVAL - (clock - cycle_now), 0)

\* C5: an interrupt that arrives while a fetch or an upload is in
\* progress does not abort it; the cycle in flight runs to the end of its
\* upload before runRealtime stops.
C5_InterruptOnlyAtCycleBoundary ==
    (pc = "done" /\ interrupted_at # None
                 /\ interrupted_at[1].at \in {"r_list", "r_query", "r_upload"}) =>
        \E k \in CallIndexes :
            /\ calls[k].op = "upload_done"
            /\ calls[k].win = interrupted_at[1].nwindows

\* What the code does in the case of C5: an interrupt takes effect at once, wherever
\* the loop is: runRealtime returns, no window is started and no call but
\* close is made after it; an interrupt that arrives during an upload leaves
\* that upload unanswered.
C5_InterruptTakesEffectAtOnce ==
    interrupted_at # None =>
        /\ pc \in {"close", "done"}
        /\ Len(windows) = interrupted_at[1].nwindows
        /\ \A k \in CallIndexes :
              k > interrupted_at[1].ncalls => calls[k].op = "close"
        /\ interrupted_at[1].at = "r_upload" =>
              /\ calls[interrupted_at[1].ncalls].op = "upload"
              /\ \A k \in CallIndexes :
                    calls[k].op = "upload_done" =>
                        calls[k].win < interrupted_at[1].nwindows

\* An interrupt arrived during the upload of the second window and main has
\* closed the job.
C5_Witness ==
    /\ pc = "done"
    /\ interrupted_at # None
    /\ interrupted_at[1].at = "r_upload"
    /\ interrupted_at[1].nwindows = 2

\* The interrupt arrived after the upload of the last window had answered and
\* before the next cycle made a call.
InterruptedBetweenCycles ==
    /\ interrupted_at # None
    /\ interrupted_at[1].at \in {"r_cadence", "r_sleep", "r_head"}
    /\ interrupted_at[1].ncalls >= 1
    /\ calls[interrupted_at[1].ncalls].op = "upload_done"

\* C6: an interrupt raised after the upload of cycle N has completed and
\* before the fetch of cycle N+1 begins makes runRealtime return without a
\* provider query or an upload for cycle N+1.
C6_InterruptBetweenCyclesStartsNoCycle ==
    InterruptedBetweenCycles =>
        /\ pc \in {"close", "done"}
        /\ Len(windows) = interrupted_at[1].nwindows
        /\ \A k \in CallIndexes :
              /\ calls[k].win <= interrupted_at[1].nwindows
              /\ k > interrupted_at[1].ncalls =>
                    calls[k].op \notin {"list_metrics", "query", "upload", "upload_done"}

\* The sleep after the first cycle's upload was interrupted and main has
\* closed the job.
C6_Witness ==
    /\ InterruptedBetweenCycles
    /\ interrupted_at[1].at = "r_sleep"
    /\ interrupted_at[1].nwindows = 1
    /\ pc = "done"

\* Call number i is the answer of an upload with a status other than 202.
IsRefusedUpload(i) ==
    calls[i].op = "upload_done" /\ calls[i].status # HTTP_ACCEPTED

\* C7: when upload answers a status other than 202, in both modes the
\* scheduler goes on (no exception leaves the cycle), upload is not called
\* again for that window, and the next window starts at the end of the
\* refused one.
C7_RefusedUploadAdvancesCursor ==
    \A i \in CallIndexes :
        IsRefusedUpload(i) =>
            /\ Len(windows) = calls[i].win => pc \in PastCyclePcs
            /\ Cardinality({k \in CallIndexes :
                  calls[k].op = "upload" /\ calls[k].win = calls[i].win}) = 1
            /\ LaterCallsFor(calls[i].win, i) = {}
            /\ Len(windows) > calls[i].win =>
                  windows[calls[i].win + 1].start = windows[calls[i].win].end

\* The upload of the first window of a historical run was refused and the
\* second window has been uploaded.
C7_Witness ==
    /\ IsHistorical
    /\ \E i \in CallIndexes : IsRefusedUpload(i) /\ calls[i].win = 1
    /\ \E k \in CallIndexes : calls[k].op = "upload_done" /\ calls[k].win = 2

\* C8: in realtime mode (the clock never runs backwards) the first window
\* starts at now - DELAY - UPDATE_INTERVAL, every later window starts at the
\* end of the one before it whatever happened in that cycle, the cursor never
\* decreases, and so no instant is covered twice or left out.
C8_RealtimeWindowsContiguous ==
    (IsRealtime /\ Scheduling) =>
        /\ windows # <<>> => windows[1].start = Now0 - DELAY - UPDATE_INTERVAL
        /\ \A k \in 2..Len(windows) : windows[k].start = windows[k - 1].end
        /\ \A k \in 1..Len(windows) : windows[k].start <= windows[k].end
        /\ windows # <<>> => end = windows[Len(windows)].end
        /\ \A t \in {windows[k].start : k \in 1..Len(windows)}
                \cup {windows[k].end - 1 : k \in 1..Len(windows)} :
              Cardinality({k \in 1..Len(windows) :
                  windows[k].start <= t /\ t < windows[k].end}) <= 1

\* A realtime run is in its second window after a first cycle that failed
\* (a provider error or a refused upload).
C8_Witness ==
    /\ IsRealtime
    /\ Len(windows) = 2
    /\ \E i \in CallIndexes :
          /\ calls[i].win = 1
          /\ calls[i].status \in {BOTO_SERVER_ERROR, 500}

\* C9: in realtime mode the window of a cycle ends at the clock value sampled
\* at the start of that cycle minus DELAY, so no window handed to CloudWatch
\* reaches beyond now - DELAY.
C9_RealtimeWindowsSettled ==
    (IsRealtime /\ Scheduling) =>
        /\ windows # <<>> =>
              /\ windows[Len(windows)].end = cycle_now - DELAY
              /\ end = cycle_now - DELAY
        /\ \A k \in 1..Len(windows) : windows[k].end <= clock - DELAY
        /\ \A i \in CallIndexes :
              calls[i].op = "query" => windows[calls[i].win].end <= clock - 600

\* A series has been queried for the second window of a realtime run.
C9_Witness ==
    /\ IsRealtime
    /\ \E i \in CallIndexes : calls[i].op = "query" /\ calls[i].win = 2

\* C10: whenever createJob has returned an identifier, a job with that
\* identifier exists in the Engine.
C10_ReturnedJobExists ==
    (pc # "createJob" /\ job_id # None) => job_id[1] \in jobs

-----------------------------------------------------------------------------
(* createJob called on its own, and called again with the id it returned *)

MaxCalls == 4

InitCreateJob ==
    /\ pc = "createJob"
    /\ arg_job_id \in {None, Some("cloudwatch"), Some("other")}
    /\ jobs \in SUBSET {"cloudwatch", "other"}
    /\ arg_start = None
    /\ arg_end = None
    /\ job_id = None
    /\ clock = Now0
    /\ start = 0
    /\ end = 0
    /\ end_date = 0
    /\ cycle_now = 0
    /\ series = 0
    /\ metric_records = <<>>
    /\ fetched = <<>>
    /\ data = <<>>
    /\ sleep_time = 0
    /\ windows = <<>>
    /\ calls = <<>>
    /\ interrupted_at = None
    /\ t_in = <<>>
    /\ t_out = <<>>
    /\ t_locals = <<>>
    /\ t_pc = "idle"
    /\ print_pc = "idle"
    /\ skip = 0
    /\ hit_count = None
    /\ requests = <<>>

\* createJob(job_id, engine_client) once more, with the id the last call
\* returned.
CreateJobAgain ==
    /\ pc = "main"
    /\ Len(calls) < MaxCalls
    /\ createJob(job_id)
    /\ UNCHANGED <<arg_job_id, arg_start, arg_end, clock, start, end, end_date,
                   cycle_now, series, metric_records, fetched, data, sleep_time,
                   windows, interrupted_at>>
    /\ UNCHANGED transposeVars
    /\ UNCHANGED printVars

NextCreateJob == CreateJob \/ CreateMissingJob \/ CreateJobAgain

SpecCreateJob == InitCreateJob /\ [][NextCreateJob]_vars

\* A step that calls the Engine, and the call it makes.
IsCall == Len(calls') = Len(calls) + 1

NewCall == calls'[Len(calls')]

\* A call of createJob begins.
EntersCreateJob == pc \in {"createJob", "main"}

\* C11: a call of createJob with a caller-specified id first asks getJob and
\* issues a create if and only if getJob answers 404; if the job exists it
\* issues no create, returns the given id and leaves the jobs of the Engine as
\* they are, so a second call after a successful one changes nothing and
\* returns the same id.
C11_CreateOnlyWhenNotFound ==
    [][(IsCall /\ CreateJobId # None) =>
          /\ EntersCreateJob =>
                /\ NewCall.op = "getJob"
                /\ pc' = "createJob_create" <=> NewCall.status = HTTP_NOT_FOUND
                /\ CreateJobId[1] \in jobs =>
                      /\ pc' # "createJob_create"
                      /\ job_id' = CreateJobId
                      /\ jobs' = jobs
          /\ pc = "createJob_create" => NewCall.op = "createJob"
          /\ NewCall.op = "createJob" =>
                /\ pc = "createJob_create"
                /\ calls[Len(calls)].op = "getJob"
                /\ calls[Len(calls)].status = HTTP_NOT_FOUND]_vars

\* createJob created the job on a 404 and, called again, found it.
C11_Witness ==
    /\ Len(calls) = 3
    /\ calls[1].op = "getJob" /\ calls[1].status = HTTP_NOT_FOUND
    /\ calls[2].op = "createJob" /\ calls[2].status = HTTP_CREATED
    /\ calls[3].op = "getJob" /\ calls[3].status = 200
    /\ job_id = arg_job_id
    /\ pc = "main"

\* C12: when the create call of createJob answers a status other than 201,
\* the process exits before scheduling: no window is started and no provider
\* query, upload or close is ever made.
C12_FailedCreationExits ==
    (\E i \in CallIndexes : calls[i].op = "createJob" /\ calls[i].status # HTTP_CREATED) =>
        /\ pc = "exit"
        /\ job_id = None
        /\ windows = <<>>
        /\ \A k \in CallIndexes : calls[k].op \in {"getJob", "createJob"}

\* getJob answered 404, the create was refused and main has returned.
C12_Witness ==
    /\ pc = "exit"
    /\ Len(calls) = 2
    /\ calls[1].op = "getJob"
    /\ calls[2].op = "createJob" /\ calls[2].status # HTTP_CREATED

-----------------------------------------------------------------------------
(* Properties of transposeMetrics' grouping *)

InputIndexes == 1..Len(t_in)

\* transposeMetrics' locals before and after it has looked at t_in[i].
LocalsBefore(i) == IF i = 1 THEN TransposeStart ELSE t_locals[i - 1]

LocalsAfter(i) == t_locals[i]

\* Every record transposeMetrics has opened: the flushed ones and the one
\* still open when it returns.
OpenedRecords ==
    IF t_in = <<>> THEN <<>>
    ELSE LocalsAfter(Len(t_in)).tranposed_metrics
         \o <<LocalsAfter(Len(t_in)).current_record>>

\* The observations of t_in made at timestamp t, by their index.
IndexesAt(t) == {i \in InputIndexes : t_in[i].timestamp = t}

Least(S) == CHOOSE x \in S : \A y \in S : x <= y

Greatest(S) == CHOOSE x \in S : \A y \in S : x >= y

\* C13: for a timestamp-sorted input, also one in which several instances
\* report at the same timestamp, every (timestamp, instance) pair of the input
\* yields exactly one record of the batch, and a record holds the metrics of
\* the observations of its own timestamp and instance and no others.
C13_OneRecordPerTimestampAndInstance ==
    (t_pc = "return" /\ IsSortedByTimestamp(t_in)) =>
        /\ \A i \in InputIndexes :
              Cardinality({k \in 1..Len(t_out) :
                  /\ t_out[k].timestamp = isoformat(t_in[i].timestamp)
                  /\ t_out[k].instance = t_in[i].instance}) = 1
        /\ \A k \in 1..Len(t_out) :
              DOMAIN t_out[k].fields =
                  {t_in[i].metric_name : i \in {j \in InputIndexes :
                      /\ isoformat(t_in[j].timestamp) = t_out[k].timestamp
                      /\ t_in[j].instance = t_out[k].instance}}

\* C17: on a timestamp-sorted input every distinct timestamp opens exactly one
\* record whatever the instances: the record takes the instance of the first
\* observation at that timestamp, holds every metric observed at it, and for a
\* metric reported more than once keeps the value seen last.
C17_OneRecordPerTimestampAcrossInstances ==
    (t_pc = "return" /\ IsSortedByTimestamp(t_in)) =>
        /\ Len(OpenedRecords) = Cardinality(TimestampsOf(t_in))
        /\ \A t \in TimestampsOf(t_in) :
              \E k \in 1..Len(OpenedRecords) :
                  /\ OpenedRecords[k].timestamp = isoformat(t)
                  /\ OpenedRecords[k].instance = t_in[Least(IndexesAt(t))].instance
                  /\ DOMAIN OpenedRecords[k].fields = NamesAt(t_in, t)
                  /\ \A n \in NamesAt(t_in, t) :
                        OpenedRecords[k].fields[n] =
                            t_in[Greatest({i \in IndexesAt(t) :
                                     t_in[i].metric_name = n})].metric_value

\* Two instances reported different values of one metric at one timestamp of
\* a sorted input, and transposeMetrics has returned.
C17_Witness ==
    /\ t_pc = "return"
    /\ IsSortedByTimestamp(t_in)
    /\ \E i, j \in InputIndexes :
          /\ i < j
          /\ t_in[i].timestamp = t_in[j].timestamp
          /\ t_in[i].instance # t_in[j].instance
          /\ t_in[i].metric_name = t_in[j].metric_name
          /\ t_in[i].metric_value # t_in[j].metric_value

\* Observation i arrives after an observation of a later timestamp.
IsLate(i) == t_in[i].timestamp < LocalsBefore(i).current_time

\* Observation i has a record of its own timestamp to go to: it opened it.
OpenedOwnRecord(i) ==
    LocalsAfter(i).current_record.timestamp = isoformat(t_in[i].timestamp)

\* C18 as stated: on an unsorted input an observation that arrives after one
\* of a later timestamp opens a new record.
C18_LateObservationOpensRecord ==
    t_pc = "return" => \A i \in InputIndexes : IsLate(i) => OpenedOwnRecord(i)

\* C18 amended: on an unsorted input the record of an earlier timestamp is
\* flushed as soon as a later timestamp arrives, and an observation of the
\* earlier timestamp that arrives after that opens no record and does not join
\* the record of its own timestamp: it is written into the record that is
\* open, that of the later timestamp.
C18_LateObservationJoinsOpenRecord ==
    t_pc = "return" =>
        \A i \in InputIndexes :
            IsLate(i) =>
                /\ LocalsAfter(i).tranposed_metrics = LocalsBefore(i).tranposed_metrics
                /\ LocalsAfter(i).current_time = LocalsBefore(i).current_time
                /\ LocalsAfter(i).current_record.timestamp =
                       isoformat(LocalsBefore(i).current_time)
                /\ LocalsAfter(i).current_record.timestamp # isoformat(t_in[i].timestamp)
                /\ t_in[i].metric_name \in DOMAIN LocalsAfter(i).current_record.fields
                /\ LocalsAfter(i).current_record.fields[t_in[i].metric_name] =
                       t_in[i].metric_value
                /\ \A j \in 1..(i - 1) :
                      (t_in[j].timestamp = t_in[i].timestamp /\ OpenedOwnRecord(j)) =>
                          \E k \in 1..Len(LocalsBefore(i).tranposed_metrics) :
                              LocalsBefore(i).tranposed_metrics[k].timestamp =
                                  isoformat(t_in[i].timestamp)

\* An observation of the first timestamp arrived after the record of that
\* timestamp had been flushed by an observation of the second.
C18_Witness ==
    /\ t_pc = "return"
    /\ \E i \in InputIndexes :
          /\ IsLate(i)
          /\ \E j \in 1..(i - 1) :
                t_in[j].timestamp = t_in[i].timestamp /\ OpenedOwnRecord(j)

-----------------------------------------------------------------------------
(* Historical mode on its own, with progress *)

\* A run started with --start-date.
InitHist == Init /\ arg_start # None

NextHist ==
    \/ CreateJob
    \/ CreateMissingJob
    \/ MainHistorical
    \/ HistLoopHead
    \/ HistListMetrics
    \/ HistQuerySeries
    \/ HistTransposeAndUpload
    \/ HistUploadReturns
    \/ CloseJob

\* The process is scheduled and every call it makes returns or raises, so a
\* step that can be taken is eventually taken.
SpecHistFair == InitHist /\ [][NextHist]_vars /\ WF_vars(NextHist)

CeilDiv(a, b) == (a + b - 1) \div b

\* C14: historical mode terminates.  Whenever start_date <= end_date, whatever
\* uploads are refused and whatever provider errors are raised, runHistorical
\* returns, and when it has returned the cursor is at end_date and exactly
\* ceil((end_date - start_date) / L) windows were queried.
C14_HistoricalTerminates ==
    /\ []((pc \in {"close", "done"} /\ arg_start[1] <= end_date) =>
            /\ end = end_date
            /\ Len(windows) = CeilDiv(end_date - arg_start[1],
                                      MAX_DATAPOINTS_PER_QUERY * REPORTING_INTERVAL))
    /\ (pc = "h_head" /\ arg_start[1] <= end_date) ~> (pc = "close")

\* runHistorical has returned after three windows, one of which met a provider
\* error and another a refused upload.
C14_Witness ==
    /\ pc = "close"
    /\ arg_start[1] <= end_date
    /\ Len(windows) = 3
    /\ \E i, j \in CallIndexes :
          /\ calls[i].win # calls[j].win
          /\ calls[i].status = BOTO_SERVER_ERROR
          /\ calls[j].op = "upload_done" /\ calls[j].status # HTTP_ACCEPTED

-----------------------------------------------------------------------------
(* Windows handed to the provider *)

\* C15: every window for which either mode calls the provider is non-empty
\* and not inverted (start < end), also when --end-date is earlier than
\* --start-date.
C15_QueriedWindowsNonEmpty ==
    \A i \in CallIndexes :
        calls[i].op \in {"list_metrics", "query"} =>
            windows[calls[i].win].start < windows[calls[i].win].end

-----------------------------------------------------------------------------
(* queryMetricRecords *)

\* queryMetricRecords has returned and its result is being uploaded.
AtUpload == pc \in {"h_upload", "r_upload"}

HasInstanceId(m) == "InstanceId" \in DOMAIN m.dimensions

\* The ways of arranging n items: p[k] is the place in the input of the k-th
\* item of the output.
Arrangements(n) ==
    {p \in [1..n -> 1..n] : \A a, b \in 1..n : p[a] = p[b] => a = b}

\* result holds the items of input, each once, by non-decreasing timestamp,
\* those of equal timestamp in the order they have in input.
IsStableSortOf(result, input) ==
    /\ Len(result) = Len(input)
    /\ IsSortedByTimestamp(result)
    /\ \E p \in Arrangements(Len(input)) :
          /\ \A k \in 1..Len(input) : result[k] = input[p[k]]
          /\ \A a, b \in 1..Len(input) :
                (a < b /\ result[a].timestamp = result[b].timestamp) => p[a] < p[b]

\* C16: queryMetricRecords never queries a series without the InstanceId
\* dimension, and what it returns is the datapoints fetched for the series
\* with it, by non-decreasing timestamp, equal timestamps in fetch order.
C16_QueryResultIsStableSort ==
    /\ \A i \in CallIndexes :
          calls[i].op = "query" => HasInstanceId(Metrics[calls[i].series])
    /\ AtUpload =>
          /\ IsStableSortOf(metric_records, fetched)
          /\ \A k \in 1..Len(metric_records) :
                \E n \in 1..Len(Metrics) :
                    /\ HasInstanceId(Metrics[n])
                    /\ Metrics[n].name = metric_records[k].metric_name
                    /\ Metrics[n].dimensions["InstanceId"][1] = metric_records[k].instance
                    /\ \E i \in CallIndexes :
                          /\ calls[i].op = "query"
                          /\ calls[i].win = Len(windows)
                          /\ calls[i].series = n

\* Two series each answered two datapoints out of order, so the fetched list
\* was unsorted and held equal timestamps, and the result is being uploaded.
C16_Witness ==
    /\ AtUpload
    /\ Len(fetched) = 4
    /\ ~IsSortedByTimestamp(fetched)
    /\ \E a, b \in 1..Len(fetched) :
          a # b /\ fetched[a].timestamp = fetched[b].timestamp

-----------------------------------------------------------------------------
(* Uploads per window *)

WindowIndexes == 1..Len(windows)

\* The calls of engine_client.upload made for window w.
UploadsFor(w) == {i \in CallIndexes : calls[i].op = "upload" /\ calls[i].win = w}

\* The provider was called for window w.
IsQueried(w) ==
    \E i \in CallIndexes :
        calls[i].win = w /\ calls[i].op \in {"list_metrics", "query"}

\* No call to the provider for window w raised.
FetchRaisedNothing(w) ==
    \A i \in CallIndexes :
        calls[i].win = w => calls[i].status # BOTO_SERVER_ERROR

\* The interrupt arrived in the cycle of window w before its upload call.
InterruptedBeforeUpload(w) ==
    /\ interrupted_at # None
    /\ interrupted_at[1].nwindows = w
    /\ interrupted_at[1].at \in {"r_list", "r_query"}

\* C19: every queried window whose fetch raised no provider error
\* gets exactly one upload call.
C19_CleanWindowUploadedOnce ==
    \A w \in WindowIndexes :
        (IsQueried(w) /\ FetchRaisedNothing(w) /\ CycleOver(w)) =>
            Cardinality(UploadsFor(w)) = 1

\* What the code does in the case of C19: upload is called at most once per
\* queried window, and exactly
\* once for every queried window whose fetch raised no provider error and
\* whose cycle was not cut short by an interrupt before the upload call; the
\* call carries one newline-terminated JSON line per record that
\* transposeMetrics returned, in that order, also when there is none.
C19_UploadOncePerCompletedFetch ==
    /\ \A w \in WindowIndexes : Cardinality(UploadsFor(w)) <= 1
    /\ \A w \in WindowIndexes :
          (/\ IsQueried(w)
           /\ FetchRaisedNothing(w)
           /\ CycleOver(w)
           /\ ~InterruptedBeforeUpload(w)) => Cardinality(UploadsFor(w)) = 1
    /\ AtUpload =>
          /\ UploadsFor(Len(windows)) = {Len(calls)}
          /\ Len(data) = Len(transposeMetrics(metric_records))
          /\ \A k \in 1..Len(data) :
                /\ data[k].json = transposeMetrics(metric_records)[k]
                /\ data[k].terminator = "\n"

\* The first window of a realtime run was uploaded in one call with an empty
\* batch, and the second was interrupted after a series had been queried, so
\* it was never uploaded.
C19_Witness ==
    /\ pc = "done"
    /\ Len(windows) = 2
    /\ Cardinality(UploadsFor(1)) = 1
    /\ FetchRaisedNothing(1)
    /\ data = <<>>
    /\ InterruptedBeforeUpload(2)
    /\ \E i \in CallIndexes :
          calls[i].win = 2 /\ calls[i].op = "query" /\ calls[i].status = BOTO_OK
    /\ FetchRaisedNothing(2)
    /\ UploadsFor(2) = {}

-----------------------------------------------------------------------------
(* Closing the job *)

\* The calls of engine_client.close in a log of calls.
ClosesIn(log) == {i \in 1..Len(log) : log[i].op = "close"}

\* C20: once scheduling has started and the scheduler stops, because
\* runHistorical has returned or because runRealtime was interrupted anywhere
\* in its loop, the next thing main does is close the job; close is called
\* once, it is the last call of the run, and every upload comes before it.
C20_CloseOnceAfterScheduler ==
    [][/\ interrupted_at' # None => pc' \in {"close", "done"}
       /\ pc = "close" => (calls' = Append(calls, Call("close", 0, 0, 0)) /\ pc' = "done")
       /\ pc' = "done" => ClosesIn(calls') = {Len(calls')}
       /\ pc' # "done" => ClosesIn(calls') = {}
       /\ \A i \in ClosesIn(calls') : \A k \in 1..Len(calls') :
             calls'[k].op \in {"upload", "upload_done"} => k < i]_vars

\* A realtime run was interrupted in the fetch of its second cycle, after the
\* first had been uploaded, and the job has been closed.
C20_Witness ==
    /\ pc = "done"
    /\ interrupted_at # None
    /\ interrupted_at[1].at = "r_query"
    /\ \E k \in CallIndexes : calls[k].op = "upload_done"
    /\ calls[Len(calls)].op = "close"

-----------------------------------------------------------------------------
(* printJobRecords.py: main's record-retrieval loop *)

\* take = 200
take == 200

HTTP_OK == 200

\* The pages a job's records may need.
MaxPages == 3

\* The hitCount values a response may carry: on a page boundary, one over it
\* and one under the next, up to MaxPages pages.
HitCounts ==
    {k * take + o : k \in 0..(MaxPages - 1), o \in {0, 1, take - 1}}
    \cup {MaxPages * take}

\* The statuses getRecords may answer.
RecordStatuses == {HTTP_OK, HTTP_NOT_FOUND, 500}

\* One getRecords(job_id, skip, take, ...) call and its answer.
Request(s, t, http_status_code, hitCount) ==
    [skip |-> s, take |-> t, status |-> http_status_code, hitCount |-> hitCount]

\* Mutant of LoopContinues: a page is requested also when the last one ended
\* exactly at hit_count.
LoopContinues_Inclusive(s, t, hits) == s + t <= hits

\* while (skip + take) < hit_count
LoopContinues(s, t, hits) == s + t < hits

\* skip = 0, the first getRecords, the status test and hit_count.  hitCount
\* is a JSON integer, which int() returns as it is.
GetFirstPage ==
    /\ print_pc = "first"
    /\ \E http_status_code \in RecordStatuses, hitCount \in HitCounts :
          /\ requests' = Append(requests, Request(0, take, http_status_code, hitCount))
          /\ IF http_status_code # HTTP_OK
             THEN /\ print_pc' = "done"
                  /\ UNCHANGED hit_count
             ELSE /\ print_pc' = "loop"
                  /\ hit_count' = Some(hitCount)
    /\ skip' = 0
    /\ UNCHANGED schedVars
    /\ UNCHANGED transposeVars

\* One iteration of the while loop: skip += take, getRecords, the status test.
GetNextPage ==
    /\ print_pc = "loop"
    /\ LoopContinues(skip, take, hit_count[1])
    /\ skip' = skip + take
    /\ \E http_status_code \in RecordStatuses, hitCount \in HitCounts :
          /\ requests' = Append(requests,
                                Request(skip + take, take, http_status_code, hitCount))
          /\ print_pc' = IF http_status_code # HTTP_OK THEN "done" ELSE "loop"
    /\ UNCHANGED hit_count
    /\ UNCHANGED schedVars
    /\ UNCHANGED transposeVars

\* The while test fails and main returns.
LoopExit ==
    /\ print_pc = "loop"
    /\ ~LoopContinues(skip, take, hit_count[1])
    /\ print_pc' = "done"
    /\ UNCHANGED <<skip, hit_count, requests>>
    /\ UNCHANGED schedVars
    /\ UNCHANGED transposeVars

\* printJobRecords.py started with a job id.
InitPrintRecords ==
    /\ SchedIdle
    /\ t_in = <<>>
    /\ t_out = <<>>
    /\ t_locals = <<>>
    /\ t_pc = "idle"
    /\ print_pc = "first"
    /\ skip = 0
    /\ hit_count = None
    /\ requests = <<>>

NextPrintRecords == GetFirstPage \/ GetNextPage \/ LoopExit

\* The process is scheduled and every getRecords call returns, so a step that
\* can be taken is eventually taken.
SpecPrintRecordsFair ==
    InitPrintRecords /\ [][NextPrintRecords]_vars /\ WF_vars(NextPrintRecords)

RequestIndexes == 1..Len(requests)

AllAnswered200 == \A k \in RequestIndexes : requests[k].status = HTTP_OK

\* The pages needed for hits records: max(1, ceil(hits / take)).
PagesFor(hits) == Max(1, CeilDiv(hits, take))

\* C21: the retrieval loop terminates.  Requests are made at skip = 0, take,
\* 2*take, ...; a status other than 200 ends the run with no further request;
\* and when every status is 200 the run makes max(1, ceil(hitCount / take))
\* requests, hitCount being that of the first response, stopping at the first
\* with skip + take >= hitCount, so that every offset of [0, hitCount) is in
\* exactly one requested page.
C21_PaginationTerminatesAndCovers ==
    /\ [](/\ \A k \in RequestIndexes :
                /\ requests[k].skip = (k - 1) * take
                /\ requests[k].take = take
                /\ k < Len(requests) => requests[k].status = HTTP_OK
                /\ k < Len(requests) =>
                      requests[k].skip + take < requests[1].hitCount
          /\ (requests # <<>> /\ ~AllAnswered200) => print_pc = "done"
          /\ (requests # <<>> /\ AllAnswered200) =>
                Len(requests) <= PagesFor(requests[1].hitCount)
          /\ (print_pc = "done" /\ AllAnswered200) =>
                /\ Len(requests) = PagesFor(requests[1].hitCount)
                /\ requests[Len(requests)].skip + take >= requests[1].hitCount
                /\ \A o \in 0..(requests[1].hitCount - 1) :
                      Cardinality({k \in RequestIndexes :
                          /\ requests[k].skip <= o
                          /\ o < requests[k].skip + requests[k].take}) = 1)
    /\ <>(print_pc = "done")

\* A job with two full pages and one record more was read in three requests,
\* all answered 200, the later responses reporting another hitCount than the
\* first.
C21_Witness ==
    /\ print_pc = "done"
    /\ Len(requests) = 3
    /\ AllAnswered200
    /\ requests[1].hitCount = 2 * take + 1
    /\ requests[2].hitCount # requests[1].hitCount
====
